---- MODULE Spec2Model ----
(***************************************************************************)
(* Model of VC_News_Analyzer.py: the duplicate filter over the history     *)
(* store, the retry decorator and the run_workflow pipeline driven by the  *)
(* hourly scheduler of main().                                             *)
(*                                                                         *)
(* Text is modelled as a sequence of tokens: "u", "v", "k" stand for runs  *)
(* of ordinary characters, "/", "?", "#" and "|" for themselves.  A        *)
(* timestamp is a number of seconds.                                       *)
(***************************************************************************)
EXTENDS Integers, Sequences, FiniteSets

\* ------------------------------------------------------------------ bounds
MaxItems == 2
MaxRuns == 3
MaxMaxRetries == 3
MaxLinkLen == 3
MaxWait == 20
MaxBatches == 2

\* -------------------------------------------------------- program constants
QuietStart == 22
QuietEnd == 7
HistoryWindow == 7 * 24 * 60 * 60
FeedLimit == 10
MaxPosts == 3
batch_size == 5
ExplanationLimit == 200
AnalyzeMaxRetries == 3
AnalyzeDelay == 10
DefaultBackoff == 2
SchedulePeriod == 60 * 60
FeedTimeout == 15
ImageTimeout == 5
PageLoadTimeout == 15
ElementWait == 10
TelegramTimeout == 10
PacingDelay == 2

Min(a, b) == IF a < b THEN a ELSE b

\* ------------------------------------------------------------ text helpers
\* str.rstrip('/'): drop every trailing "/" token.
RECURSIVE RStripSlash(_)
RStripSlash(s) ==
    IF s = <<>> THEN <<>>
    ELSE IF s[Len(s)] = "/" THEN RStripSlash(SubSeq(s, 1, Len(s) - 1))
    ELSE s

\* The part of s before the first occurrence of a token of stops.
RECURSIVE Before(_, _)
Before(s, stops) ==
    IF s = <<>> THEN <<>>
    ELSE IF Head(s) \in stops THEN <<>>
    ELSE <<Head(s)>> \o Before(Tail(s), stops)

\* urlparse + urlunparse((scheme, netloc, path, '', '', '')): the fragment is
\* cut at the first "#", the query at the first "?", the rest is kept.
UrlWithoutQueryAndFragment(url) == Before(Before(url, {"#"}), {"?"})

NormalizeUrlKeepingQuery(url) == RStripSlash(Before(url, {"#"}))

NormalizeUrlKeepingSlash(url) == UrlWithoutQueryAndFragment(url)

NormalizeUrl(url) == RStripSlash(UrlWithoutQueryAndFragment(url))

\* hashlib.md5(...).hexdigest(): a non-empty digest, taken to be free of
\* collisions on the texts of the model.
MD5(text) == <<"md5">> \o text

None == <<>>

\* ------------------------------------------------------------ fingerprints
GenerateNewsHash(item) == MD5(item.title \o <<"|">> \o item.link)

GenerateUrlHash(item) ==
    IF item.link = <<>> THEN None
    ELSE MD5(NormalizeUrl(item.link))

\* Python truthiness of the value returned by _generate_url_hash.
Truthy(h) == h # None

\* ------------------------------------------------------------ history store
\* A store is a function from fingerprints to timestamps (a Python dict).
EmptyStore == [h \in {} |-> 0]

StorePut(store, h, t) ==
    [k \in DOMAIN store \cup {h} |-> IF k = h THEN t ELSE store[k]]

\* The history file on disk: absent; present but open raises; rejected by
\* json.load; a JSON value that is not an object; or a JSON object.  data
\* holds the entries of the object whose value is a number, other the kind
\* of the value of every other entry.
NoOddValues == [h \in {} |-> ""]

NoFile == [state |-> "missing", data |-> EmptyStore, other |-> NoOddValues]

Unreadable == [state |-> "unreadable", data |-> EmptyStore, other |-> NoOddValues]

Corrupt == [state |-> "corrupt", data |-> EmptyStore, other |-> NoOddValues]

NotMapping == [state |-> "not_mapping", data |-> EmptyStore, other |-> NoOddValues]

MappingFile(store) == [state |-> "mapping", data |-> store, other |-> NoOddValues]

\* The JSON values that are not numbers, by kind; json.load turns true and
\* false into True and False, which Python subtracts as 1 and 0.
OddKinds == {"true", "false", "null", "string"}

Subtractable(kind) == kind \in {"true", "false"}

AsNumber(kind) == IF kind = "true" THEN 1 ELSE 0

OddFile(store, other) == [state |-> "mapping", data |-> store, other |-> other]

LoadHistoryKeepingAll(file, current_time) ==
    IF file.state = "mapping" THEN file.data ELSE EmptyStore

\* _load_history: a missing file gives {}; so does any exception: open or
\* json.load raising, a value without .items(), a timestamp Python cannot
\* subtract from a float.  Otherwise the entries of age 7 days or more are
\* dropped.
LoadHistory(file, current_time) ==
    IF file.state = "missing" THEN EmptyStore
    ELSE IF file.state \in {"unreadable", "corrupt", "not_mapping"}
    THEN EmptyStore
    ELSE IF \E h \in DOMAIN file.other : ~Subtractable(file.other[h])
    THEN EmptyStore
    ELSE LET history ==
                 [h \in DOMAIN file.data \cup DOMAIN file.other |->
                     IF h \in DOMAIN file.data THEN file.data[h]
                     ELSE AsNumber(file.other[h])]
             cleaned == {h \in DOMAIN history :
                            current_time - history[h] < HistoryWindow}
         IN  [h \in cleaned |-> history[h]]

\* _save_history: open(..., 'w') truncates, json.dump writes; an error is
\* printed and swallowed.  outcome is what the file system did.
SaveOutcomes == {"written", "open_failed", "write_failed"}

SaveHistory(file, store, outcome) ==
    CASE outcome = "written" -> MappingFile(store)
      [] outcome = "open_failed" -> file
      [] outcome = "write_failed" -> Corrupt

\* ---------------------------------------------------------- duplicate filter
IsDuplicateUrlOnly(item, store) ==
    LET url_hash == GenerateUrlHash(item)
    IN  Truthy(url_hash) /\ url_hash \in DOMAIN store

IsDuplicate(item, store) ==
    LET news_hash == GenerateNewsHash(item)
        url_hash == GenerateUrlHash(item)
    IN  IF news_hash \in DOMAIN store THEN TRUE
        ELSE IF Truthy(url_hash) /\ url_hash \in DOMAIN store THEN TRUE
        ELSE FALSE

MarkAsAnalyzedUrlOnly(item, store, t) ==
    LET url_hash == GenerateUrlHash(item)
    IN  IF Truthy(url_hash) THEN StorePut(store, url_hash, t) ELSE store

MarkAsAnalyzed(item, store, t) ==
    LET news_hash == GenerateNewsHash(item)
        url_hash == GenerateUrlHash(item)
        s1 == StorePut(store, news_hash, t)
    IN  IF Truthy(url_hash) THEN StorePut(s1, url_hash, t) ELSE s1

\* filter_duplicates: the loop over items, as <<new_items, duplicate_count>>.
RECURSIVE FilterLoop(_, _, _, _)
FilterLoop(items, store, new, dups) ==
    IF items = <<>> THEN <<new, dups>>
    ELSE IF ~IsDuplicate(Head(items), store)
         THEN FilterLoop(Tail(items), store, Append(new, Head(items)), dups)
         ELSE FilterLoop(Tail(items), store, new, dups + 1)

FilterDuplicatesReversed(items, store) ==
    LET r == FilterLoop(items, store, <<>>, 0)
        kept == r[1]
        n == Len(kept)
        reversed == [i \in 1..n |-> kept[n + 1 - i]]
    IN  <<reversed, r[2]>>

FilterDuplicates(items, store) == FilterLoop(items, store, <<>>, 0)

\* ------------------------------------------------------------- collaborators
Sources == <<"A", "B">>

Article(source_name, title, link) ==
    [source |-> source_name, title |-> title, link |-> link]

\* What the entries of each feed can be.  Feed A carries an article under a
\* link with a tracking query and an entry without a link; feed B carries the
\* same article under another title and a link with a trailing slash, and an
\* unrelated article.
FeedItems(source_name) ==
    IF source_name = "A"
    THEN { Article("A", <<"s">>, <<"u", "?", "k">>),
           Article("A", <<"s">>, <<>>) }
    ELSE { Article("B", <<"t">>, <<"u", "/">>),
           Article("B", <<"t">>, <<"v">>) }

AllItems == UNION {FeedItems(Sources[i]) : i \in 1..Len(Sources)}

\* _fetch_single_feed: the first 10 entries become articles; an exception
\* (request, parse, or a malformed entry) is logged and the articles built
\* before it are returned.  built = Len(entries) when nothing fails.
FetchSingleFeedAllOrNothing(entries, built) ==
    IF built < Len(entries) THEN <<>>
    ELSE SubSeq(entries, 1, Min(Len(entries), FeedLimit))

FetchSingleFeed(entries, built) ==
    SubSeq(entries, 1, Min(Min(Len(entries), FeedLimit), built))

\* merge_sources(*sources): every list argument is appended in order.
RECURSIVE MergeSources(_)
MergeSources(sources) ==
    IF sources = <<>> THEN <<>>
    ELSE Head(sources) \o MergeSources(Tail(sources))

\* ------------------------------------------------------------------ classify
VerdictKinds == {"yes", "no", "missing", "wrong"}
BatchKinds == {"parsed", "unparseable", "raised"}

\* The lengths a response text of the classifier can have, in characters.
ResponseLengths == {150, 250}

\* item['ai_analysis']: None, the verdict object of the response, or
\* {'explanation': response_text[:200]}, a text of chars characters.
NoAnalysis == [kind |-> "none", chars |-> 0]

OwnVerdict == [kind |-> "verdict", chars |-> 0]

RawText(len) == [kind |-> "raw_text", chars |-> Min(len, ExplanationLimit)]

\* An entry of analyzed_items: the item with its two new fields.
Flagged(item, flag, analysis) ==
    [item |-> item, is_opportunity |-> flag, ai_analysis |-> analysis]

AllFalse(batch, analysis) ==
    [i \in 1..Len(batch) |-> Flagged(batch[i], FALSE, analysis)]

\* Index of the first "wrong" verdict of v, 0 when there is none.
RECURSIVE FirstWrong(_, _)
FirstWrong(v, i) ==
    IF i > Len(v) THEN 0
    ELSE IF v[i] = "wrong" THEN i
    ELSE FirstWrong(v, i + 1)

\* One iteration of the batch loop of analyze_with_gemini, as the entries it
\* appends to analyzed_items.  len is the length of the response text.
\* kind "raised": generate_content or response.text raised, or the parsed
\* value does not support the key lookup; "unparseable": json.loads raised
\* JSONDecodeError; "parsed": per position the key item_k is absent
\* ("missing"), holds a verdict object with a true ("yes") or false/absent
\* ("no") is_opportunity, or holds a value without .get ("wrong"), which
\* raises inside the matching loop: the items matched before it stay
\* appended, and the handler appends the whole batch again, every item now
\* without analysis and flagged False (the entries share the item objects).
AnalyzeBatch(batch, kind, v, len) ==
    IF kind = "raised" THEN AllFalse(batch, NoAnalysis)
    ELSE IF kind = "unparseable" THEN AllFalse(batch, RawText(len))
    ELSE LET w == FirstWrong(v, 1)
         IN  IF w = 0
             THEN [i \in 1..Len(batch) |->
                      IF v[i] = "missing"
                      THEN Flagged(batch[i], FALSE, NoAnalysis)
                      ELSE Flagged(batch[i], v[i] = "yes", OwnVerdict)]
             ELSE AllFalse(SubSeq(batch, 1, w - 1), NoAnalysis)
                  \o AllFalse(batch, NoAnalysis)

\* Whether the iteration reaches time.sleep(2), the last statement of its
\* try block: an exception on the way, from the call or from the matching
\* loop, goes to the handler, which does not sleep.
BatchSleeps(kind, v) ==
    /\ kind # "raised"
    /\ kind = "parsed" => FirstWrong(v, 1) = 0

NumBatches(items) == (Len(items) + batch_size - 1) \div batch_size

RECURSIVE AnalyzeLoop(_, _, _, _, _)
AnalyzeLoop(items, kinds, v, lens, b) ==
    IF b > NumBatches(items) THEN <<>>
    ELSE LET lo == (b - 1) * batch_size + 1
             hi == Min(b * batch_size, Len(items))
         IN  AnalyzeBatch(SubSeq(items, lo, hi), kinds[b], SubSeq(v, lo, hi),
                          lens[b])
             \o AnalyzeLoop(items, kinds, v, lens, b + 1)

AnalyzeWithGeminiWithoutKeyCheck(items, api_key, kinds, v, lens) ==
    AnalyzeLoop(items, kinds, v, lens, 1)

\* analyze_with_gemini without the decorator, when it returns.
AnalyzeWithGemini(items, api_key, kinds, v, lens) ==
    IF ~api_key THEN <<>>
    ELSE AnalyzeLoop(items, kinds, v, lens, 1)

\* filter_opportunities
FilterOpportunities(items) ==
    SelectSeq(items, LAMBDA a : a.is_opportunity)

\* --------------------------------------------------------------------- retry
\* retry_on_failure, the except branch: what the wrapper does after the
\* wrapped function raised.
RetryExceptNoBackoff(n, cur, max, factor) ==
    IF n + 1 >= max
    THEN [retries |-> n + 1, reraise |-> TRUE, slept |-> 0, current_delay |-> cur]
    ELSE [retries |-> n + 1, reraise |-> FALSE, slept |-> cur, current_delay |-> cur]

RetryExceptGivesUpLate(n, cur, max, factor) ==
    IF n + 1 > max
    THEN [retries |-> n + 1, reraise |-> TRUE, slept |-> 0, current_delay |-> cur]
    ELSE [retries |-> n + 1, reraise |-> FALSE, slept |-> cur,
          current_delay |-> cur * factor]

RetryExcept(n, cur, max, factor) ==
    IF n + 1 >= max
    THEN [retries |-> n + 1, reraise |-> TRUE, slept |-> 0, current_delay |-> cur]
    ELSE [retries |-> n + 1, reraise |-> FALSE, slept |-> cur,
          current_delay |-> cur * factor]

\* -------------------------------------------------------------------- sample
SampleSizeUncapped(max_posts, n) == max_posts

\* min(max_posts, len(opportunities))
SampleSize(max_posts, n) == Min(max_posts, n)

\* random.sample(population, k): k distinct positions, in any order.
Samples(n, k) ==
    {p \in [1..k -> 1..n] : \A i, j \in 1..k : i # j => p[i] # p[j]}

\* ----------------------------------------------------------------- scheduler
\* datetime.now().hour for the clock value t.
LocalHour(t) == (t \div (60 * 60)) % 24

QuietHoursExclusive(h) == h > QuietStart \/ h < QuietEnd

QuietHours(h) == h >= QuietStart \/ h < QuietEnd

\* --------------------------------------------------------------------- state
VARIABLES
    now,                    \* the system clock, in seconds
    runs,                   \* invocations of run_workflow so far in this process
    consecutive_errors,     \* the counter of the loop of main()
    pc,                     \* where the process is
    run_result,             \* how the current invocation of run_workflow ended
    gemini_api_key,         \* GEMINI_API_KEY is set
    telegram_configured,    \* TELEGRAM_BOT_TOKEN and TELEGRAM_CHAT_ID are set
    history_file,           \* sent_news_history.json
    sent_news_hashes,       \* self.sent_news_hashes
    persist_job,            \* the file and the mapping _save_history started from
    rss_articles, all_items, new_items, duplicate_count,
    analyzed_items, opportunities, selected_idx, selected_opportunities,
    loop_i,                 \* position of the for loop in progress
    max_retries, delay, backoff,        \* arguments of retry_on_failure
    retries, current_delay,             \* locals of its wrapper
    retry_log,              \* calls and sleeps of the wrapper, in order
    retry_result,           \* how the wrapper ended
    pending_call,           \* the external call in flight, if any
    message,                \* the local of that name in send_to_telegram
    fingerprints,           \* what the two hash functions returned for all_items
    events,                 \* deliveries, marks and persists of this run, in order
    fetch_log,              \* per source, what its feed held and how its fetch ended
    gemini_responses,       \* what the classifier answered in the call that returned
    handed,                 \* how often each item was handed to delivery by this process
    marked                  \* items passed to _mark_as_analyzed by this process

config == <<gemini_api_key, telegram_configured, max_retries, delay, backoff>>
clock == <<now, runs, consecutive_errors>>
retry == <<retries, current_delay, retry_log, retry_result>>
locals == <<rss_articles, all_items, new_items, duplicate_count, analyzed_items,
            opportunities, selected_idx, selected_opportunities, loop_i>>
stores == <<history_file, sent_news_hashes, persist_job>>
ghosts == <<events, fetch_log, gemini_responses, handed, marked, fingerprints,
            pending_call, message>>
vars == <<pc, run_result, config, clock, retry, locals, stores, ghosts>>

Hour == 60 * 60
BaseTime == 30 * 24 * Hour

\* A history file written by an earlier process: the URL fingerprints of an
\* article and of a link that normalizes to the empty text, marked before
\* BaseTime and inside the 7-day window of every load of the model, and a
\* content fingerprint marked 7 days before BaseTime.
OldFile ==
    MappingFile([h \in {MD5(<<"v">>), MD5(<<>>), MD5(<<"s", "|">>)} |->
                    IF h = MD5(<<"s", "|">>) THEN BaseTime - HistoryWindow
                    ELSE BaseTime])

\* When the process starts and what it finds on disk: at 05:00 with no
\* history file, or at 20:00 with the file of an earlier process.
Deployments ==
    { [start |-> BaseTime + 5 * Hour, file |-> NoFile],
      [start |-> BaseTime + 20 * Hour, file |-> OldFile] }

\* The count of hand-overs per item; an item not in the domain has none.
NoneHanded == [it \in {} |-> 0]

RECURSIVE HandOver(_, _)
HandOver(h, items) ==
    IF items = <<>> THEN h
    ELSE LET it == Head(items)
             h1 == [x \in DOMAIN h \cup {it} |->
                       IF x = it THEN (IF it \in DOMAIN h THEN h[it] + 1 ELSE 1)
                       ELSE h[x]]
         IN  HandOver(h1, Tail(items))

NoItem == [source |-> "", title |-> <<>>, link |-> <<>>]

\* The local variable message of send_to_telegram before its first
\* assignment in a call.
Unbound == [variant |-> "unbound", item |-> NoItem]

\* No external call is in flight.
NoCall == [kind |-> "none", bounded |-> TRUE, limit |-> 0, waited |-> 0]

\* No classifier call of this run has returned, or its result is consumed.
NoResponses == <<>>

Responses(kinds, v, lens) == <<[kinds |-> kinds, v |-> v, lens |-> lens]>>

\* _save_history has not been entered.
NoJob == [state |-> "none", before |-> NoFile, mapping |-> EmptyStore]

Job(file, store) == [state |-> "started", before |-> file, mapping |-> store]

Event(op, item, ok) == [op |-> op, item |-> item, ok |-> ok]

LocalsCleared ==
    /\ rss_articles' = <<>>
    /\ all_items' = <<>>
    /\ new_items' = <<>>
    /\ duplicate_count' = 0
    /\ analyzed_items' = <<>>
    /\ opportunities' = <<>>
    /\ selected_idx' = <<>>
    /\ selected_opportunities' = <<>>
    /\ loop_i' = 1

RetryIdle ==
    /\ retries = 0
    /\ current_delay = 0
    /\ retry_log = <<>>
    /\ retry_result = "none"

\* VCNewsAnalyzer.__init__ followed by the start of main().
Init ==
    /\ \E d \in Deployments :
         /\ now = d.start
         /\ history_file = d.file
    /\ runs = 1
    /\ consecutive_errors = 0
    /\ pc = "sched"
    /\ run_result = "none"
    /\ gemini_api_key \in BOOLEAN
    /\ telegram_configured \in BOOLEAN
    /\ sent_news_hashes = LoadHistory(history_file, now)
    /\ persist_job = NoJob
    /\ rss_articles = <<>> /\ all_items = <<>> /\ new_items = <<>>
    /\ duplicate_count = 0 /\ analyzed_items = <<>> /\ opportunities = <<>>
    /\ selected_idx = <<>> /\ selected_opportunities = <<>> /\ loop_i = 1
    /\ max_retries = AnalyzeMaxRetries
    /\ delay = AnalyzeDelay
    /\ backoff = DefaultBackoff
    /\ RetryIdle
    /\ events = <<>>
    /\ fetch_log = <<>>
    /\ fingerprints = <<>>
    /\ pending_call = NoCall
    /\ message = Unbound
    /\ gemini_responses = NoResponses
    /\ handed = NoneHanded
    /\ marked = {}

\* ------------------------------------------------------------------ workflow
\* run_workflow, the quiet-hours guard.
RunWorkflowEnter ==
    /\ pc = "sched"
    /\ IF QuietHours(LocalHour(now))
       THEN pc' = "returned" /\ run_result' = "skipped"
       ELSE pc' = "fetch" /\ run_result' = "running"
    /\ UNCHANGED <<config, clock, retry, locals, stores, ghosts>>

\* How _fetch_single_feed can end on a feed of n entries: without an
\* exception, every entry built; or with one, raised by the request, the
\* parse or an entry that lacks a title or a link, after built articles.
FetchOutcomes(n) ==
    {[ok |-> TRUE, built |-> n]}
    \cup {[ok |-> FALSE, built |-> b] : b \in 0..(IF n = 0 THEN 0 ELSE n - 1)}

Fetched(source_name, entries, outcome) ==
    [source |-> source_name, entries |-> entries, ok |-> outcome.ok,
     built |-> outcome.built]

\* Step 1, fetch_rss_feeds: every source in turn, its articles appended.
FetchRssFeeds ==
    /\ pc = "fetch"
    /\ \E n1 \in 0..MaxItems :
         \E n2 \in 0..(MaxItems - n1) :
           \E e1 \in [1..n1 -> FeedItems(Sources[1])],
              e2 \in [1..n2 -> FeedItems(Sources[2])] :
             \E o1 \in FetchOutcomes(n1), o2 \in FetchOutcomes(n2) :
               /\ rss_articles' = FetchSingleFeed(e1, o1.built)
                                   \o FetchSingleFeed(e2, o2.built)
               /\ fetch_log' = <<Fetched(Sources[1], e1, o1),
                                  Fetched(Sources[2], e2, o2)>>
    /\ pc' = "merge"
    /\ UNCHANGED <<fingerprints, pending_call, message, run_result, config, clock, retry, stores, events,
                   gemini_responses, handed, marked, all_items,
                   new_items, duplicate_count, analyzed_items, opportunities,
                   selected_idx, selected_opportunities, loop_i>>

\* Step 2, merge_sources, and the return when nothing was collected.
MergeStep ==
    /\ pc = "merge"
    /\ all_items' = MergeSources(<<rss_articles>>)
    /\ rss_articles' = <<>>
    /\ fetch_log' = <<>>
    /\ IF all_items' = <<>>
       THEN pc' = "returned" /\ run_result' = "no_items"
       ELSE pc' = "dedupe" /\ UNCHANGED run_result
    /\ UNCHANGED <<fingerprints, pending_call, message, config, clock, retry, stores, events, gemini_responses,
                   handed, marked, new_items,
                   duplicate_count, analyzed_items, opportunities, selected_idx,
                   selected_opportunities, loop_i>>

\* Step 3, filter_duplicates, and the return when every item is a duplicate.
FilterDuplicatesStep ==
    /\ pc = "dedupe"
    /\ LET r == FilterDuplicates(all_items, sent_news_hashes)
       IN  /\ new_items' = r[1]
           /\ duplicate_count' = r[2]
    /\ IF new_items' = <<>>
       THEN /\ pc' = "returned" /\ run_result' = "no_new_items"
            /\ UNCHANGED retry
       ELSE /\ pc' = "classify" /\ UNCHANGED run_result
            /\ retries' = 0
            /\ current_delay' = delay
            /\ retry_log' = <<>>
            /\ retry_result' = "none"
    /\ UNCHANGED <<config, clock, stores, ghosts, rss_articles, all_items,
                   analyzed_items, opportunities, selected_idx,
                   selected_opportunities, loop_i>>

WorkflowReraise == [pc |-> "raised", run_result |-> "error"]

\* The except clause of run_workflow: the exception of a stage is logged and
\* run_workflow returns.
WorkflowExcept == [pc |-> "returned", run_result |-> "error"]

Call == [op |-> "call", arg |-> 0]

Sleep(d) == [op |-> "sleep", arg |-> d]

\* What the wrapper of retry_on_failure does when the wrapped call raised:
\* the new locals and log, and whether the exception leaves the wrapper.
WrapperExcept ==
    LET r == RetryExcept(retries, current_delay, max_retries, backoff)
    IN  /\ retries' = r.retries
        /\ current_delay' = r.current_delay
        /\ retry_log' = IF r.reraise THEN Append(retry_log, Call)
                        ELSE retry_log \o <<Call, Sleep(r.slept)>>
        /\ retry_result' = IF r.reraise THEN "raised" ELSE retry_result

\* What the classifier can answer for items: a call that raised has no
\* response text, and only a response that parsed has keys.
WellFormedResponses(items, kinds, v, lens) ==
    /\ \A b \in 1..NumBatches(items) : (kinds[b] = "raised") <=> (lens[b] = 0)
    /\ \A k \in 1..Len(items) :
         kinds[(k - 1) \div batch_size + 1] # "parsed" => v[k] = "missing"

\* Step 4, analyze_with_gemini under @retry_on_failure(max_retries=3,
\* delay=10): one pass of the wrapper's loop in which the call returns, and
\* the wrapper with it.
AnalyzeReturns ==
    /\ pc = "classify"
    /\ retries < max_retries
    /\ \E kinds \in [1..NumBatches(new_items) -> BatchKinds],
          v \in [1..Len(new_items) -> VerdictKinds],
          lens \in [1..NumBatches(new_items) -> ResponseLengths \cup {0}] :
         /\ WellFormedResponses(new_items, kinds, v, lens)
         /\ analyzed_items' =
                AnalyzeWithGemini(new_items, gemini_api_key, kinds, v, lens)
         /\ gemini_responses' = IF gemini_api_key THEN Responses(kinds, v, lens)
                                 ELSE NoResponses
    /\ retries' = 0 /\ current_delay' = 0 /\ retry_log' = <<>>
    /\ retry_result' = "none"
    /\ pc' = "select"
    /\ all_items' = <<>>
    /\ duplicate_count' = 0
    /\ UNCHANGED <<fingerprints, pending_call, message, run_result, config, clock, stores, events, fetch_log, handed,
                   marked, rss_articles, new_items, opportunities, selected_idx,
                   selected_opportunities, loop_i>>

\* One pass in which the call raises before its batch loop (a prompt entry
\* without 'prompt' or 'emoji', a template str.format rejects): possible only
\* past the api-key check.  The last re-raise reaches the except clause of
\* run_workflow.
AnalyzeRaises ==
    /\ pc = "classify"
    /\ retries < max_retries
    /\ gemini_api_key
    /\ WrapperExcept
    /\ IF retry_result' = "raised"
       THEN pc' = WorkflowExcept.pc /\ run_result' = WorkflowExcept.run_result
       ELSE UNCHANGED <<pc, run_result>>
    /\ UNCHANGED <<config, clock, stores, ghosts, locals>>

\* Step 5, filter_opportunities.
FilterOpportunitiesStep ==
    /\ pc = "select"
    /\ opportunities' = FilterOpportunities(analyzed_items)
    /\ new_items' = <<>>
    /\ analyzed_items' = <<>>
    /\ gemini_responses' = NoResponses
    /\ pc' = "sample"
    /\ UNCHANGED <<fingerprints, pending_call, message, run_result, config, clock, retry, stores, events, fetch_log,
                   handed, marked, rss_articles, all_items, duplicate_count,
                   selected_idx, selected_opportunities, loop_i>>

\* Step 6: random.randint(1, 3), then random.sample, which raises ValueError
\* when asked for more items than there are.
SampleStep ==
    /\ pc = "sample"
    /\ IF opportunities # <<>>
       THEN \E max_posts \in 1..MaxPosts :
              LET n == Len(opportunities)
                  k == SampleSize(max_posts, n)
              IN  IF k > n
                  THEN /\ pc' = WorkflowExcept.pc
                       /\ run_result' = WorkflowExcept.run_result
                       /\ UNCHANGED <<selected_idx, selected_opportunities>>
                  ELSE /\ \E p \in Samples(n, k) :
                            /\ selected_idx' = p
                            /\ selected_opportunities' =
                                   [i \in 1..k |-> opportunities[p[i]]]
                       /\ pc' = "deliver" /\ UNCHANGED run_result
       ELSE /\ selected_idx' = <<>>
            /\ selected_opportunities' = <<>>
            /\ pc' = "deliver" /\ UNCHANGED run_result
    /\ UNCHANGED <<config, clock, retry, stores, ghosts, rss_articles, all_items,
                   new_items, duplicate_count, analyzed_items, opportunities,
                   loop_i>>

Items(flagged) == [i \in 1..Len(flagged) |-> flagged[i].item]

\* Step 7, send_to_telegram without credentials: every opportunity is
\* printed, nothing is sent.
SendPrintOnly ==
    /\ pc = "deliver"
    /\ ~telegram_configured
    /\ events' = events \o [i \in 1..Len(selected_opportunities) |->
                               Event("print", selected_opportunities[i].item, TRUE)]
    /\ handed' = HandOver(handed, Items(selected_opportunities))
    /\ pc' = "mark"
    /\ loop_i' = 1
    /\ opportunities' = <<>>
    /\ UNCHANGED <<fingerprints, pending_call, message, run_result, config, clock, retry, stores, marked,
                   fetch_log, gemini_responses, rss_articles, all_items, new_items, duplicate_count,
                   analyzed_items, selected_idx, selected_opportunities>>

\* send_to_telegram with credentials and nothing to send.
SendNothing ==
    /\ pc = "deliver"
    /\ telegram_configured
    /\ selected_opportunities = <<>>
    /\ pc' = "mark"
    /\ loop_i' = 1
    /\ opportunities' = <<>>
    /\ UNCHANGED <<run_result, config, clock, retry, stores, ghosts,
                   rss_articles, all_items, new_items, duplicate_count,
                   analyzed_items, selected_idx, selected_opportunities>>

\* Where send_to_telegram goes after the try block of position i of n ended,
\* sent or caught by its except clause.
AfterSendAbortOnFailure(i, n, sent) ==
    IF ~sent THEN [pc |-> "returned", loop_i |-> i, run_result |-> "error"]
    ELSE IF i < n THEN [pc |-> "deliver", loop_i |-> i + 1, run_result |-> "running"]
    ELSE [pc |-> "mark", loop_i |-> 1, run_result |-> "running"]

AfterSendFirstOnly(i, n, sent) ==
    [pc |-> "mark", loop_i |-> 1, run_result |-> "running"]

AfterSendSkippingMark(i, n, sent) ==
    IF i < n THEN [pc |-> "deliver", loop_i |-> i + 1, run_result |-> "running"]
    ELSE [pc |-> "save", loop_i |-> 1, run_result |-> "running"]

AfterSend(i, n, sent) ==
    IF i < n THEN [pc |-> "deliver", loop_i |-> i + 1, run_result |-> "running"]
    ELSE [pc |-> "mark", loop_i |-> 1, run_result |-> "running"]

\* send_to_telegram, one pass of the loop over the opportunities: the message
\* is built, the image looked up and the item posted, or an exception on the
\* way is caught and printed.
SendItem ==
    /\ pc = "deliver"
    /\ telegram_configured
    /\ loop_i <= Len(selected_opportunities)
    /\ \E sent \in BOOLEAN :
         LET next == AfterSend(loop_i, Len(selected_opportunities), sent)
         IN  /\ events' = Append(events,
                      Event("deliver", selected_opportunities[loop_i].item, sent))
             /\ pc' = next.pc
             /\ loop_i' = next.loop_i
             /\ run_result' = next.run_result
    /\ handed' = HandOver(handed, <<selected_opportunities[loop_i].item>>)
    /\ opportunities' = <<>>
    /\ UNCHANGED <<fingerprints, pending_call, message, config, clock, retry, stores, marked, fetch_log,
                   gemini_responses,
                   rss_articles, all_items,
                   new_items, duplicate_count, analyzed_items, selected_idx,
                   selected_opportunities>>

\* The for loop of step 8 over items, from store.
RECURSIVE MarkLoop(_, _, _)
MarkLoop(items, store, t) ==
    IF items = <<>> THEN store
    ELSE MarkLoop(Tail(items), MarkAsAnalyzed(Head(items), store, t), t)

\* Step 8: every selected item is marked.
MarkSelected ==
    /\ pc = "mark"
    /\ LET items == Items(selected_opportunities)
       IN  /\ sent_news_hashes' = MarkLoop(items, sent_news_hashes, now)
           /\ marked' = marked \cup {items[i] : i \in 1..Len(items)}
           /\ events' = events \o [i \in 1..Len(items) |->
                                      Event("mark", items[i], TRUE)]
    /\ pc' = "save"
    /\ UNCHANGED <<fingerprints, pending_call, message, run_result, config, clock, retry, history_file, persist_job,
                   handed, fetch_log, gemini_responses, locals>>

\* Step 9, _save_history, and the normal return of run_workflow.
SaveStep ==
    /\ pc = "save"
    /\ \E outcome \in SaveOutcomes :
         /\ history_file' = SaveHistory(history_file, sent_news_hashes, outcome)
         /\ events' = Append(events, Event("persist", NoItem, outcome = "written"))
    /\ pc' = "returned"
    /\ run_result' = "completed"
    /\ UNCHANGED <<fingerprints, pending_call, message, config, clock, retry, locals, sent_news_hashes, persist_job,
                   handed, marked, fetch_log, gemini_responses>>

\* The time between two invocations of run_workflow: the hour of
\* schedule.every(1).hours, or more when the process was held up.  The model
\* lets one delay that starts in the evening last a further 7 days.
Gaps(t) ==
    IF LocalHour(t) >= 20 /\ t < BaseTime + HistoryWindow
    THEN {SchedulePeriod, SchedulePeriod + HistoryWindow}
    ELSE {SchedulePeriod}

\* main(): the loop polls schedule.run_pending(), which invokes run_workflow
\* again once the period has passed since the previous run.  run_workflow
\* has returned, so run_pending returns and the statement after it resets
\* the counter; the except clause of the loop, which would count, needs an
\* exception to leave run_pending.
SchedulerTick ==
    /\ pc = "returned"
    /\ runs < MaxRuns
    /\ consecutive_errors' = 0
    /\ \E gap \in Gaps(now) : now' = now + gap
    /\ runs' = runs + 1
    /\ pc' = "sched"
    /\ run_result' = "none"
    /\ LocalsCleared
    /\ retries' = 0 /\ current_delay' = 0 /\ retry_log' = <<>>
    /\ retry_result' = "none"
    /\ events' = <<>>
    /\ gemini_responses' = NoResponses
    /\ UNCHANGED <<fingerprints, pending_call, message, config, stores, fetch_log, handed, marked>>

Next ==
    \/ RunWorkflowEnter
    \/ FetchRssFeeds
    \/ MergeStep
    \/ FilterDuplicatesStep
    \/ AnalyzeReturns
    \/ AnalyzeRaises
    \/ FilterOpportunitiesStep
    \/ SampleStep
    \/ SendPrintOnly
    \/ SendNothing
    \/ SendItem
    \/ MarkSelected
    \/ SaveStep
    \/ SchedulerTick

Spec == Init /\ [][Next]_vars

\* ------------------------------------------------- the retry decorator alone
\* retry_on_failure around any function, for a range of decorator arguments;
\* each call of the wrapped function returns or raises.
NoWorkflow ==
    /\ now = BaseTime
    /\ runs = 0
    /\ consecutive_errors = 0
    /\ run_result = "none"
    /\ gemini_api_key = TRUE
    /\ telegram_configured = TRUE
    /\ history_file = NoFile
    /\ sent_news_hashes = EmptyStore
    /\ persist_job = NoJob
    /\ rss_articles = <<>> /\ all_items = <<>> /\ new_items = <<>>
    /\ duplicate_count = 0 /\ analyzed_items = <<>> /\ opportunities = <<>>
    /\ selected_idx = <<>> /\ selected_opportunities = <<>> /\ loop_i = 1
    /\ events = <<>>
    /\ fetch_log = <<>>
    /\ fingerprints = <<>>
    /\ pending_call = NoCall
    /\ message = Unbound
    /\ gemini_responses = NoResponses
    /\ handed = NoneHanded
    /\ marked = {}

RetryDelays == {1, 5, 10}
RetryBackoffs == {1, 2, 3}

InitRetry ==
    /\ NoWorkflow
    /\ pc = "retry"
    /\ max_retries \in 0..MaxMaxRetries
    /\ delay \in RetryDelays
    /\ backoff \in RetryBackoffs
    /\ retries = 0
    /\ current_delay = delay
    /\ retry_log = <<>>
    /\ retry_result = "none"

\* A pass of the while loop in which func returns: the wrapper returns it.
WrappedReturns ==
    /\ pc = "retry"
    /\ retries < max_retries
    /\ retry_log' = Append(retry_log, Call)
    /\ retry_result' = "value"
    /\ pc' = "retry_done"
    /\ UNCHANGED <<run_result, config, clock, retries, current_delay, locals,
                   stores, ghosts>>

\* A pass in which func raises.
WrappedRaises ==
    /\ pc = "retry"
    /\ retries < max_retries
    /\ WrapperExcept
    /\ pc' = IF retry_result' = "raised" THEN "retry_done" ELSE pc
    /\ UNCHANGED <<run_result, config, clock, locals, stores, ghosts>>

\* The while condition is false: the wrapper falls through to return None.
WrapperFallsThrough ==
    /\ pc = "retry"
    /\ ~(retries < max_retries)
    /\ retry_result' = "none_returned"
    /\ pc' = "retry_done"
    /\ UNCHANGED <<run_result, config, clock, retries, current_delay, retry_log,
                   locals, stores, ghosts>>

NextRetry == WrappedReturns \/ WrappedRaises \/ WrapperFallsThrough

RetrySpec == InitRetry /\ [][NextRetry]_vars

\* ------------------------------------------------------ loading the history
\* _load_history at construction, for a range of files and load times.
LoadKeys == {MD5(<<"u">>), MD5(<<"s", "|">>)}

\* Timestamps around the 7-day edge of a load at BaseTime, and one ahead of
\* the clock.
LoadStamps ==
    { BaseTime - HistoryWindow - 1, BaseTime - HistoryWindow,
      BaseTime - HistoryWindow + 1, BaseTime, BaseTime + Hour }

LoadFiles ==
    {NoFile, Corrupt} \cup
    UNION { {MappingFile(m) : m \in [K -> LoadStamps]} : K \in SUBSET LoadKeys }

InitLoad ==
    /\ now \in {BaseTime, BaseTime + 1}
    /\ history_file \in LoadFiles
    /\ sent_news_hashes = EmptyStore
    /\ persist_job = NoJob
    /\ pc = "boot"
    /\ runs = 0
    /\ consecutive_errors = 0
    /\ run_result = "none"
    /\ gemini_api_key = TRUE
    /\ telegram_configured = TRUE
    /\ rss_articles = <<>> /\ all_items = <<>> /\ new_items = <<>>
    /\ duplicate_count = 0 /\ analyzed_items = <<>> /\ opportunities = <<>>
    /\ selected_idx = <<>> /\ selected_opportunities = <<>> /\ loop_i = 1
    /\ max_retries = AnalyzeMaxRetries
    /\ delay = AnalyzeDelay
    /\ backoff = DefaultBackoff
    /\ RetryIdle
    /\ events = <<>>
    /\ fetch_log = <<>>
    /\ fingerprints = <<>>
    /\ pending_call = NoCall
    /\ message = Unbound
    /\ gemini_responses = NoResponses
    /\ handed = NoneHanded
    /\ marked = {}

\* Files of an unexpected shape: unreadable, not JSON, not a JSON object, or
\* an object in which the value of some entry is not a number.
ShapeStamps == {BaseTime - HistoryWindow, BaseTime}

ShapeFiles ==
    {NoFile, Unreadable, Corrupt, NotMapping} \cup
    UNION { UNION { {OddFile(m, o) : m \in [K \ O -> ShapeStamps],
                                     o \in [O -> OddKinds]} :
                    O \in SUBSET K } :
            K \in SUBSET LoadKeys }

InitShape ==
    /\ now \in {BaseTime, BaseTime + 1}
    /\ history_file \in ShapeFiles
    /\ sent_news_hashes = EmptyStore
    /\ persist_job = NoJob
    /\ pc = "boot"
    /\ runs = 0
    /\ consecutive_errors = 0
    /\ run_result = "none"
    /\ gemini_api_key = TRUE
    /\ telegram_configured = TRUE
    /\ rss_articles = <<>> /\ all_items = <<>> /\ new_items = <<>>
    /\ duplicate_count = 0 /\ analyzed_items = <<>> /\ opportunities = <<>>
    /\ selected_idx = <<>> /\ selected_opportunities = <<>> /\ loop_i = 1
    /\ max_retries = AnalyzeMaxRetries
    /\ delay = AnalyzeDelay
    /\ backoff = DefaultBackoff
    /\ RetryIdle
    /\ events = <<>>
    /\ fetch_log = <<>>
    /\ fingerprints = <<>>
    /\ pending_call = NoCall
    /\ message = Unbound
    /\ gemini_responses = NoResponses
    /\ handed = NoneHanded
    /\ marked = {}

\* self.sent_news_hashes = self._load_history()
LoadStep ==
    /\ pc = "boot"
    /\ sent_news_hashes' = LoadHistory(history_file, now)
    /\ pc' = "sched"
    /\ runs' = 1
    /\ UNCHANGED <<run_result, config, now, consecutive_errors, retry, locals,
                   history_file, persist_job, ghosts>>

NextLoad == LoadStep

LoadSpec == InitLoad /\ [][NextLoad]_vars

NextShape == LoadStep

ShapeSpec == InitShape /\ [][NextShape]_vars

\* ------------------------------------------------- the two fingerprints alone
\* _generate_news_hash and _generate_url_hash on two items whose links are
\* any texts of up to MaxLinkLen tokens.
LinkTokens == {"u", "/", "?", "#"}

Links == UNION {[1..n -> LinkTokens] : n \in 0..MaxLinkLen}

InitHash ==
    /\ \E title \in {<<"s">>, <<"t">>}, link1 \in Links, link2 \in Links :
         all_items = <<Article("A", <<"s">>, link1), Article("B", title, link2)>>
    /\ fingerprints = <<>>
    /\ pending_call = NoCall
    /\ message = Unbound
    /\ pc = "hash"
    /\ now = BaseTime
    /\ runs = 0
    /\ consecutive_errors = 0
    /\ run_result = "none"
    /\ gemini_api_key = TRUE
    /\ telegram_configured = TRUE
    /\ history_file = NoFile
    /\ sent_news_hashes = EmptyStore
    /\ persist_job = NoJob
    /\ rss_articles = <<>> /\ new_items = <<>>
    /\ duplicate_count = 0 /\ analyzed_items = <<>> /\ opportunities = <<>>
    /\ selected_idx = <<>> /\ selected_opportunities = <<>> /\ loop_i = 1
    /\ max_retries = AnalyzeMaxRetries
    /\ delay = AnalyzeDelay
    /\ backoff = DefaultBackoff
    /\ RetryIdle
    /\ events = <<>>
    /\ fetch_log = <<>>
    /\ gemini_responses = NoResponses
    /\ handed = NoneHanded
    /\ marked = {}

\* Both functions are applied to every item.
HashStep ==
    /\ pc = "hash"
    /\ fingerprints' = [i \in 1..Len(all_items) |->
                           [news_hash |-> GenerateNewsHash(all_items[i]),
                            url_hash |-> GenerateUrlHash(all_items[i])]]
    /\ pc' = "hashed"
    /\ UNCHANGED <<run_result, config, clock, retry, locals, stores, events,
                   fetch_log, gemini_responses, handed, marked, pending_call,
                   message>>

NextHash == HashStep

HashSpec == InitHash /\ [][NextHash]_vars

\* ------------------------------------------------ the external calls of a run
\* The blocking calls one run makes for one feed, one batch and one selected
\* item without an image, in the order of the code, each with the bound
\* the code passes: requests.get(feed_url, timeout=15),
\* self.model.generate_content(prompt) with no timeout argument and no
\* alarm around it, requests.get(url, timeout=5),
\* driver.set_page_load_timeout(15) before driver.get, WebDriverWait(driver,
\* 10) twice, and requests.post(..., timeout=10) for photo and text.
ExternalCalls ==
    << [kind |-> "feed_fetch", bounded |-> TRUE, limit |-> FeedTimeout],
       [kind |-> "classifier", bounded |-> FALSE, limit |-> 0],
       [kind |-> "image_lookup", bounded |-> TRUE, limit |-> ImageTimeout],
       [kind |-> "selenium_page", bounded |-> TRUE, limit |-> PageLoadTimeout],
       [kind |-> "selenium_og_image", bounded |-> TRUE, limit |-> ElementWait],
       [kind |-> "selenium_article_image", bounded |-> TRUE, limit |-> ElementWait],
       [kind |-> "send_photo", bounded |-> TRUE, limit |-> TelegramTimeout],
       [kind |-> "send_message", bounded |-> TRUE, limit |-> TelegramTimeout] >>

InFlight(call) ==
    [kind |-> call.kind, bounded |-> call.bounded, limit |-> call.limit,
     waited |-> 0]

InitCalls ==
    /\ pc = "call_next"
    /\ loop_i = 1
    /\ pending_call = NoCall
    /\ message = Unbound
    /\ now = BaseTime + 8 * Hour
    /\ runs = 1
    /\ consecutive_errors = 0
    /\ run_result = "running"
    /\ gemini_api_key = TRUE
    /\ telegram_configured = TRUE
    /\ history_file = NoFile
    /\ sent_news_hashes = EmptyStore
    /\ persist_job = NoJob
    /\ rss_articles = <<>> /\ all_items = <<>> /\ new_items = <<>>
    /\ duplicate_count = 0 /\ analyzed_items = <<>> /\ opportunities = <<>>
    /\ selected_idx = <<>> /\ selected_opportunities = <<>>
    /\ max_retries = AnalyzeMaxRetries
    /\ delay = AnalyzeDelay
    /\ backoff = DefaultBackoff
    /\ RetryIdle
    /\ events = <<>>
    /\ fetch_log = <<>>
    /\ fingerprints = <<>>
    /\ gemini_responses = NoResponses
    /\ handed = NoneHanded
    /\ marked = {}

CallFrame ==
    UNCHANGED <<config, runs, consecutive_errors, retry, stores, rss_articles,
                all_items, new_items, duplicate_count, analyzed_items,
                opportunities, selected_idx, selected_opportunities, events,
                fetch_log, gemini_responses, handed, marked, fingerprints,
                message>>

\* The run reaches its next blocking call.
IssueCall ==
    /\ pc = "call_next"
    /\ loop_i <= Len(ExternalCalls)
    /\ pending_call' = InFlight(ExternalCalls[loop_i])
    /\ pc' = "call_wait"
    /\ UNCHANGED <<now, loop_i, run_result>>
    /\ CallFrame

\* A second passes in which the collaborator has not answered.
Waits ==
    /\ pc = "call_wait"
    /\ IF pending_call.bounded THEN pending_call.waited < pending_call.limit
       ELSE pending_call.waited < MaxWait
    /\ pending_call' = [pending_call EXCEPT !.waited = @ + 1]
    /\ now' = now + 1
    /\ UNCHANGED <<pc, loop_i, run_result>>
    /\ CallFrame

\* The collaborator answers, with a result or an error the stage handles,
\* before the bound of the call is reached.
Responds ==
    /\ pc = "call_wait"
    /\ pending_call.bounded => pending_call.waited < pending_call.limit
    /\ pending_call' = NoCall
    /\ loop_i' = loop_i + 1
    /\ pc' = "call_next"
    /\ UNCHANGED <<now, run_result>>
    /\ CallFrame

\* The bound of the call is reached: the library raises, the stage handles it.
TimesOut ==
    /\ pc = "call_wait"
    /\ pending_call.bounded
    /\ pending_call.waited = pending_call.limit
    /\ pending_call' = NoCall
    /\ loop_i' = loop_i + 1
    /\ pc' = "call_next"
    /\ UNCHANGED <<now, run_result>>
    /\ CallFrame

\* No call is left: run_workflow returns.
CallsDone ==
    /\ pc = "call_next"
    /\ loop_i > Len(ExternalCalls)
    /\ pc' = "returned"
    /\ run_result' = "completed"
    /\ UNCHANGED <<now, loop_i, pending_call>>
    /\ CallFrame

NextCalls == IssueCall \/ Waits \/ Responds \/ TimesOut \/ CallsDone

CallSpec == InitCalls /\ [][NextCalls]_vars

\* ------------------------------------------- the batch loop, one batch a step
\* n distinct items of one feed.
BatchItems(n) == [i \in 1..n |-> Article("A", [j \in 1..i |-> "t"], <<"u">>)]

\* The verdicts a parsed response holds for a batch of m items: a verdict
\* object that says yes for every item but at most one.
VerdictVectors(m) ==
    {v \in [1..m -> VerdictKinds] :
        Cardinality({i \in 1..m : v[i] # "yes"}) <= 1}

InitBatches ==
    /\ pc = "batch"
    /\ loop_i = 1
    /\ \E n \in 1..(MaxBatches * batch_size) : new_items = BatchItems(n)
    /\ analyzed_items = <<>>
    /\ gemini_responses = Responses(<<>>, <<>>, <<>>)
    /\ retry_log = <<>>
    /\ retries = 0 /\ current_delay = 0 /\ retry_result = "none"
    /\ max_retries = AnalyzeMaxRetries
    /\ delay = AnalyzeDelay
    /\ backoff = DefaultBackoff
    /\ now = BaseTime + 8 * Hour
    /\ runs = 1
    /\ consecutive_errors = 0
    /\ run_result = "running"
    /\ gemini_api_key = TRUE
    /\ telegram_configured = TRUE
    /\ history_file = NoFile
    /\ sent_news_hashes = EmptyStore
    /\ persist_job = NoJob
    /\ rss_articles = <<>> /\ all_items = <<>>
    /\ duplicate_count = 0 /\ opportunities = <<>>
    /\ selected_idx = <<>> /\ selected_opportunities = <<>>
    /\ events = <<>>
    /\ fetch_log = <<>>
    /\ fingerprints = <<>>
    /\ pending_call = NoCall
    /\ message = Unbound
    /\ handed = NoneHanded
    /\ marked = {}

BatchFrame ==
    UNCHANGED <<config, clock, run_result, stores, rss_articles, all_items,
                new_items, duplicate_count, opportunities, selected_idx,
                selected_opportunities, retries, current_delay, max_retries,
                delay, backoff, retry_result, events, fetch_log, handed,
                marked, fingerprints, pending_call, message>>

\* One iteration of the for loop of analyze_with_gemini: the call, the
\* entries appended for the batch, and the pause when it is reached.
AnalyzeBatchStep ==
    /\ pc = "batch"
    /\ loop_i <= NumBatches(new_items)
    /\ LET lo == (loop_i - 1) * batch_size + 1
           hi == Min(loop_i * batch_size, Len(new_items))
           batch == SubSeq(new_items, lo, hi)
           r == gemini_responses[1]
       IN  \E kind \in BatchKinds, v \in VerdictVectors(Len(batch)),
              len \in ResponseLengths \cup {0} :
             /\ (kind = "raised") <=> (len = 0)
             /\ kind # "parsed" => \A i \in 1..Len(batch) : v[i] = "missing"
             /\ analyzed_items' =
                    analyzed_items \o AnalyzeBatch(batch, kind, v, len)
             /\ retry_log' = IF BatchSleeps(kind, v)
                             THEN retry_log \o <<Call, Sleep(PacingDelay)>>
                             ELSE Append(retry_log, Call)
             /\ gemini_responses' =
                    Responses(Append(r.kinds, kind), r.v \o v,
                              Append(r.lens, len))
    /\ loop_i' = loop_i + 1
    /\ UNCHANGED pc
    /\ BatchFrame

\* return analyzed_items
AnalyzeLoopReturns ==
    /\ pc = "batch"
    /\ loop_i > NumBatches(new_items)
    /\ pc' = "analyzed"
    /\ UNCHANGED <<loop_i, analyzed_items, retry_log, gemini_responses>>
    /\ BatchFrame

NextBatches == AnalyzeBatchStep \/ AnalyzeLoopReturns

BatchSpec == InitBatches /\ [][NextBatches]_vars

\* ------------------------------------------ send_to_telegram, item by item
\* The text built from the template of the style, and the default text,
\* for an item.
TemplateMessage(item) == [variant |-> "template", item |-> item]

DefaultMessage(item) == [variant |-> "default", item |-> item]

\* What the formatting block of an iteration leaves in message: with a
\* template, the formatted text, or, when template.format raised, what
\* message held before (the handler prints and sets template = None); without
\* a template, the default text.
Render(rendering, item, before) ==
    IF rendering = "template" THEN TemplateMessage(item)
    ELSE IF rendering = "failed" THEN before
    ELSE DefaultMessage(item)

Renderings == {"template", "failed", "default"}

\* How an item with a bound message can leave the iteration: posted as the
\* caption of its image (an image was found and the text has at most 1024
\* characters), posted as Markdown text, posted as plain text after Markdown
\* was refused, or the last post raised.
SendPaths(image, long) ==
    (IF image /\ ~long THEN {"caption"} ELSE {}) \cup
    {"markdown", "plain", "raised"}

Delivery(item, rendering, text, path) ==
    [op |-> "deliver", item |-> item, ok |-> path # "raised",
     rendering |-> rendering, message |-> text, path |-> path]

InitSend ==
    /\ pc = "deliver"
    /\ loop_i = 1
    /\ message = Unbound
    /\ \E n \in 1..MaxItems :
         selected_opportunities =
             [i \in 1..n |-> Flagged(BatchItems(n)[i], TRUE, OwnVerdict)]
    /\ events = <<>>
    /\ now = BaseTime + 8 * Hour
    /\ runs = 1
    /\ consecutive_errors = 0
    /\ run_result = "running"
    /\ gemini_api_key = TRUE
    /\ telegram_configured = TRUE
    /\ history_file = NoFile
    /\ sent_news_hashes = EmptyStore
    /\ persist_job = NoJob
    /\ rss_articles = <<>> /\ all_items = <<>> /\ new_items = <<>>
    /\ duplicate_count = 0 /\ analyzed_items = <<>> /\ opportunities = <<>>
    /\ selected_idx = <<>>
    /\ max_retries = AnalyzeMaxRetries
    /\ delay = AnalyzeDelay
    /\ backoff = DefaultBackoff
    /\ RetryIdle
    /\ fetch_log = <<>>
    /\ fingerprints = <<>>
    /\ pending_call = NoCall
    /\ gemini_responses = NoResponses
    /\ handed = NoneHanded
    /\ marked = {}

SendFrame ==
    UNCHANGED <<config, clock, run_result, retry, stores, rss_articles,
                all_items, new_items, duplicate_count, analyzed_items,
                opportunities, selected_idx, selected_opportunities,
                fetch_log, gemini_responses, handed, marked, fingerprints,
                pending_call>>

\* One pass of the loop of send_to_telegram.  A template is configured for
\* the style in every pass of a call or in none.  A pass that reads message
\* while it is unbound raises, and the except clause of the pass prints.
SendRendered ==
    /\ pc = "deliver"
    /\ loop_i <= Len(selected_opportunities)
    /\ \E rendering \in Renderings, image \in BOOLEAN, long \in BOOLEAN :
         LET item == selected_opportunities[loop_i].item
             text == Render(rendering, item, message)
         IN  /\ events # <<>> =>
                    ((rendering = "default") <=> (events[1].rendering = "default"))
             /\ message' = text
             /\ \E path \in (IF text = Unbound THEN {"raised"}
                               ELSE SendPaths(image, long)) :
                    events' = Append(events, Delivery(item, rendering, text, path))
    /\ loop_i' = loop_i + 1
    /\ UNCHANGED pc
    /\ SendFrame

\* The loop is over: send_to_telegram returns.
SendReturns ==
    /\ pc = "deliver"
    /\ loop_i > Len(selected_opportunities)
    /\ pc' = "mark"
    /\ UNCHANGED <<loop_i, message, events>>
    /\ SendFrame

NextSend == SendRendered \/ SendReturns

SendSpec == InitSend /\ [][NextSend]_vars

\* ------------------------------------------- a crash while the history is saved
\* _save_history step by step, the process killed at any point of it, and
\* the next process loading what is on disk.
CrashFiles == {NoFile} \cup {f \in LoadFiles : f.state = "mapping"}

\* A process that loaded its file, marked one item and is about to save.
InitCrash ==
    /\ now = BaseTime
    /\ history_file \in CrashFiles
    /\ \E item \in AllItems :
         sent_news_hashes =
             MarkAsAnalyzed(item, LoadHistory(history_file, now), now)
    /\ persist_job = NoJob
    /\ pc = "save"
    /\ runs = 1
    /\ consecutive_errors = 0
    /\ run_result = "running"
    /\ gemini_api_key = TRUE
    /\ telegram_configured = TRUE
    /\ rss_articles = <<>> /\ all_items = <<>> /\ new_items = <<>>
    /\ duplicate_count = 0 /\ analyzed_items = <<>> /\ opportunities = <<>>
    /\ selected_idx = <<>> /\ selected_opportunities = <<>> /\ loop_i = 1
    /\ max_retries = AnalyzeMaxRetries
    /\ delay = AnalyzeDelay
    /\ backoff = DefaultBackoff
    /\ RetryIdle
    /\ events = <<>>
    /\ fetch_log = <<>>
    /\ fingerprints = <<>>
    /\ pending_call = NoCall
    /\ message = Unbound
    /\ gemini_responses = NoResponses
    /\ handed = NoneHanded
    /\ marked = {}

CrashFrame ==
    UNCHANGED <<run_result, config, runs, consecutive_errors, retry, locals,
                ghosts>>

\* open(self.history_file, 'w'): the file exists and is empty, which
\* json.load rejects; or open raises and the file is as it was.
SaveOpens ==
    /\ pc = "save"
    /\ persist_job' = Job(history_file, sent_news_hashes)
    /\ \/ history_file' = Corrupt /\ pc' = "save_dump"
       \/ history_file' = history_file /\ pc' = "saved"
    /\ UNCHANGED <<now, sent_news_hashes>>
    /\ CrashFrame

\* json.dump and the close of the file: until the last byte is on disk the
\* file holds a prefix of the JSON text, which json.load rejects.
SaveDumps ==
    /\ pc = "save_dump"
    /\ history_file' = SaveHistory(history_file, sent_news_hashes, "written")
    /\ pc' = "saved"
    /\ UNCHANGED <<now, sent_news_hashes, persist_job>>
    /\ CrashFrame

\* The process is killed during _save_history: its memory is gone, the file
\* stays as it is.
Crash ==
    /\ pc \in {"save_dump", "saved"}
    /\ persist_job.state = "started"
    /\ pc' = "crashed"
    /\ sent_news_hashes' = EmptyStore
    /\ UNCHANGED <<now, history_file, persist_job>>
    /\ CrashFrame

\* The next process: VCNewsAnalyzer.__init__ loads the history.
Restart ==
    /\ pc = "crashed"
    /\ \E later \in {1, Hour} : now' = now + later
    /\ sent_news_hashes' = LoadHistory(history_file, now')
    /\ pc' = "sched"
    /\ UNCHANGED <<history_file, persist_job>>
    /\ CrashFrame

NextCrash == SaveOpens \/ SaveDumps \/ Crash \/ Restart

CrashSpec == InitCrash /\ [][NextCrash]_vars

\* ===================================================================== claims
\* The vocabulary of the specification, stated apart from the code above.

\* A link without its query string, its fragment and its trailing slashes.
StoryUrl(link) ==
    LET cuts == {i \in 1..Len(link) : link[i] \in {"?", "#"}}
        cut == IF cuts = {} THEN Len(link) + 1
               ELSE CHOOSE i \in cuts : \A j \in cuts : i <= j
        path == SubSeq(link, 1, cut - 1)
        solid == {i \in 1..Len(path) : path[i] # "/"}
        last == IF solid = {} THEN 0
                ELSE CHOOSE i \in solid : \A j \in solid : j <= i
    IN  SubSeq(path, 1, last)

ContentKey(item) == MD5(item.title \o <<"|">> \o item.link)

HasUrlKey(item) == item.link # <<>>

UrlKey(item) == MD5(StoryUrl(item.link))

SameStory(a, b) ==
    \/ ContentKey(a) = ContentKey(b)
    \/ HasUrlKey(a) /\ HasUrlKey(b) /\ UrlKey(a) = UrlKey(b)

Keys(store) == DOMAIN store

SeenBefore(item, store) ==
    \/ ContentKey(item) \in Keys(store)
    \/ HasUrlKey(item) /\ UrlKey(item) \in Keys(store)

Occurs(item, seq) == \E i \in 1..Len(seq) : seq[i] = item

\* filter_duplicates has just returned: its argument and its result are live.
PostDedupe ==
    \/ pc = "classify"
    \/ pc = "returned" /\ run_result = "no_new_items"

\* C1: no story is handed to the delivery stage more than once by one
\* process: no item is handed over twice, and no two items handed over have
\* equal title+link fingerprints or equal normalized-URL fingerprints.
C1_AtMostOnceDelivery ==
    /\ \A a \in DOMAIN handed : handed[a] <= 1
    /\ \A a, b \in DOMAIN handed : a # b => ~SameStory(a, b)

\* C2: an item passed to _mark_as_analyzed is a duplicate in every later
\* state of the store, however much time has passed, and an item neither of
\* whose fingerprints is a key of the store is not a duplicate.
C2_MarkedStaysDuplicate ==
    /\ \A item \in marked : IsDuplicate(item, sent_news_hashes)
    /\ \A item \in AllItems :
         (/\ ContentKey(item) \notin Keys(sent_news_hashes)
          /\ UrlKey(item) \notin Keys(sent_news_hashes))
         => ~IsDuplicate(item, sent_news_hashes)

\* An item marked more than 7 days ago is in the store of the same process.
C2_Witness ==
    \E item \in marked :
        /\ ContentKey(item) \in Keys(sent_news_hashes)
        /\ now - sent_news_hashes[ContentKey(item)] > HistoryWindow
        /\ IsDuplicate(item, sent_news_hashes)

\* The fingerprints _mark_as_analyzed is to insert for the items marked so far.
MarkedKeys ==
    {ContentKey(item) : item \in marked}
    \cup {UrlKey(item) : item \in {m \in marked : HasUrlKey(m)}}

\* C3: _is_duplicate is true exactly when the content fingerprint is a key of
\* the store, or the link is non-empty and the URL fingerprint is a key; the
\* absent URL fingerprint is never a key, and marking inserts the content
\* fingerprint always and the URL fingerprint only for a non-empty link.
C3_DuplicateIffEitherFingerprint ==
    /\ \A item \in AllItems :
         IsDuplicate(item, sent_news_hashes) <=> SeenBefore(item, sent_news_hashes)
    /\ None \notin Keys(sent_news_hashes)
    /\ MarkedKeys \subseteq Keys(sent_news_hashes)
    /\ Keys(sent_news_hashes) \subseteq MarkedKeys \cup Keys(OldFile.data)

\* An item is a duplicate by its URL fingerprint alone; an item without a
\* link is not a duplicate although the fingerprint of the empty URL is a
\* key; an item with a link has been marked.
C3_Witness ==
    /\ \E item \in AllItems :
         /\ IsDuplicate(item, sent_news_hashes)
         /\ ContentKey(item) \notin Keys(sent_news_hashes)
    /\ \E item \in AllItems :
         /\ ~HasUrlKey(item)
         /\ MD5(<<>>) \in Keys(sent_news_hashes)
         /\ ~IsDuplicate(item, sent_news_hashes)
    /\ \E item \in marked : HasUrlKey(item)

\* Pairs of positions of all_items holding one normalized URL under two titles.
UrlTwins ==
    {p \in (1..Len(all_items)) \X (1..Len(all_items)) :
        LET a == all_items[p[1]]
            b == all_items[p[2]]
        IN  /\ HasUrlKey(a) /\ HasUrlKey(b)
            /\ UrlKey(a) = UrlKey(b)
            /\ a.title # b.title}

\* C4: of two fetched items with one normalized URL and different titles,
\* filter_duplicates passes both when the store holds none of their
\* fingerprints, and drops both in any run after exactly one was marked.
C4_CrossRunUrlDedup ==
    PostDedupe =>
      \A p \in UrlTwins :
        LET a == all_items[p[1]]
            b == all_items[p[2]]
        IN  /\ ({ContentKey(a), ContentKey(b), UrlKey(a)}
                  \cap Keys(sent_news_hashes) = {})
               => Occurs(a, new_items) /\ Occurs(b, new_items)
            /\ ((a \in marked) # (b \in marked))
               => ~Occurs(a, new_items) /\ ~Occurs(b, new_items)

C4_Witness ==
    /\ PostDedupe
    /\ \E p \in UrlTwins :
         /\ all_items[p[1]] \in marked
         /\ all_items[p[2]] \notin marked
         /\ ~Occurs(all_items[p[1]], new_items)
         /\ ~Occurs(all_items[p[2]], new_items)

EventsOf(ops) == SelectSeq(events, LAMBDA e : e.op \in ops)

EventItems(ops) == Items(EventsOf(ops))

EnteredInQuietHours == LocalHour(now) >= 22 \/ LocalHour(now) < 7

\* C6: an invocation of run_workflow at an hour h with h >= 22 or h < 7
\* returns at once: nothing is fetched, classified, delivered, marked or
\* saved, and the store and the history file are as before; an invocation at
\* any other hour goes on to fetch.
C6_QuietHoursGuard ==
    /\ [](run_result = "skipped" =>
            /\ pc \in {"returned", "sched"}
            /\ events = <<>>
            /\ rss_articles = <<>> /\ all_items = <<>> /\ new_items = <<>>
            /\ analyzed_items = <<>> /\ selected_opportunities = <<>>
            /\ retry_log = <<>>)
    /\ [][pc = "sched" =>
            IF EnteredInQuietHours
            THEN /\ pc' = "returned"
                 /\ run_result' = "skipped"
                 /\ UNCHANGED <<stores, ghosts, locals, retry, clock>>
            ELSE pc' = "fetch"]_vars
    /\ [][run_result = "skipped" => UNCHANGED <<stores, handed, marked>>]_vars

\* A run entered at 22:00 has returned, with a store that holds entries.
C6_Witness ==
    /\ pc = "returned"
    /\ run_result = "skipped"
    /\ LocalHour(now) = 22
    /\ marked # {}
    /\ Keys(sent_news_hashes) # {}

C8_FilterNewOrder ==
    /\ [](PostDedupe =>
            /\ new_items = SelectSeq(all_items,
                              LAMBDA item : ~SeenBefore(item, sent_news_hashes))
            /\ duplicate_count = Len(all_items) - Len(new_items))
    /\ [][pc = "dedupe" => UNCHANGED <<stores, all_items>>]_vars

\* Of the fetched items one survives and one is dropped.
C8_Witness ==
    /\ PostDedupe
    /\ Len(new_items) >= 1
    /\ duplicate_count >= 1

IsInjective(p) == \A i, j \in DOMAIN p : i # j => p[i] # p[j]

RECURSIVE Power(_, _)
Power(b, e) == IF e = 0 THEN 1 ELSE b * Power(b, e - 1)

Calls == Len(SelectSeq(retry_log, LAMBDA e : e.op = "call"))

\* C10: when the wrapped function fails k times and then returns, with
\* k < max_retries, the wrapper has called it k + 1 times, has slept
\* delay * backoff^i after failure i + 1 (i = 0..k-1) and nowhere else,
\* returns the value, and calls nothing afterwards.
C10_RetrySuccessPath ==
    /\ [](retry_result = "value" =>
            LET k == Calls - 1
            IN  /\ k >= 0 /\ k < max_retries
                /\ Len(retry_log) = 2 * k + 1
                /\ \A i \in 0..k : retry_log[2 * i + 1].op = "call"
                /\ \A i \in 0..(k - 1) :
                     /\ retry_log[2 * i + 2].op = "sleep"
                     /\ retry_log[2 * i + 2].arg = delay * Power(backoff, i)
                /\ pc = "retry_done")
    /\ [][retry_result = "value" => UNCHANGED <<retry_log, retry_result>>]_vars

\* max_retries=3, delay=10, backoff=2, two failures: 3 calls, sleeps 10, 20.
C10_Witness ==
    /\ retry_result = "value"
    /\ max_retries = 3 /\ delay = 10 /\ backoff = 2
    /\ retry_log = <<Call, Sleep(10), Call, Sleep(20), Call>>

\* C11: when the wrapped function fails on every call and max_retries >= 1,
\* the wrapper calls it exactly max_retries times, sleeps delay * backoff^i
\* after failure i + 1 for i < max_retries - 1 and not after the last one,
\* lets the exception of the last call out instead of returning, and does
\* nothing afterwards.
C11_RetryGiveUp ==
    /\ []((pc = "retry_done" /\ max_retries >= 1 /\ retry_result # "value") =>
            /\ retry_result = "raised"
            /\ Calls = max_retries
            /\ retries = max_retries
            /\ Len(retry_log) = 2 * max_retries - 1
            /\ retry_log[Len(retry_log)].op = "call"
            /\ \A i \in 1..max_retries : retry_log[2 * i - 1].op = "call"
            /\ \A i \in 1..(max_retries - 1) :
                 /\ retry_log[2 * i].op = "sleep"
                 /\ retry_log[2 * i].arg = delay * Power(backoff, i - 1))
    /\ [](pc = "retry" => Calls <= max_retries - 1 \/ max_retries = 0)
    /\ [][retry_result = "raised" => UNCHANGED <<retry_log, retry_result>>]_vars

\* max_retries=3, delay=10, backoff=2, three failures: 3 calls, sleeps 10, 20,
\* and the exception leaves the wrapper.
C11_Witness ==
    /\ retry_result = "raised"
    /\ max_retries = 3 /\ delay = 10 /\ backoff = 2
    /\ retry_log = <<Call, Sleep(10), Call, Sleep(20), Call>>

\* The batch of position k of the classified items.
BatchOf(k) == (k - 1) \div 5 + 1

\* The text t cut to at most limit characters, as its length.
Truncated(t, limit) == IF t > limit THEN limit ELSE t

\* Every value the response holds under a key item_k is a verdict mapping.
NoWrongType ==
    \A k \in 1..Len(new_items) :
        gemini_responses[1].kinds[BatchOf(k)] = "parsed"
        => gemini_responses[1].v[k] # "wrong"

\* C12: analyze_with_gemini has returned; an item whose key item_k is absent
\* from a parsed response, and every item of a batch whose response did not
\* parse, is flagged False and carries the response text cut to 200
\* characters as its explanation; an item whose key is present carries its
\* own verdict.
C12_ClassifierDegradation ==
    (pc = "select" /\ gemini_responses # NoResponses /\ NoWrongType) =>
        LET r == gemini_responses[1]
        IN  /\ Len(analyzed_items) = Len(new_items)
            /\ \A k \in 1..Len(new_items) :
                 LET e == analyzed_items[k]
                     b == BatchOf(k)
                 IN  /\ e.item = new_items[k]
                     /\ (\/ r.kinds[b] = "unparseable"
                         \/ r.kinds[b] = "parsed" /\ r.v[k] = "missing")
                        => /\ e.is_opportunity = FALSE
                           /\ e.ai_analysis.kind = "raw_text"
                           /\ e.ai_analysis.chars = Truncated(r.lens[b], 200)
                     /\ (r.kinds[b] = "parsed" /\ r.v[k] \in {"yes", "no"})
                        => /\ e.is_opportunity = (r.v[k] = "yes")
                           /\ e.ai_analysis.kind = "verdict"

\* C13: a run whose classify stage failed on all 3 attempts ends like a run
\* without opportunities: nothing selected, delivered or marked, the history
\* saved once, and run_workflow returns normally.
C13_ClassifierUnavailableNotFatal ==
    (pc = "returned" /\ retry_result = "raised") =>
        /\ run_result = "completed"
        /\ Calls = 3
        /\ selected_opportunities = <<>>
        /\ EventsOf({"deliver", "print", "mark"}) = <<>>
        /\ Len(EventsOf({"persist"})) = 1

\* The concatenation of the sequences of seqs, in their order.
RECURSIVE ConcatInOrder(_)
ConcatInOrder(seqs) ==
    IF seqs = <<>> THEN <<>>
    ELSE Head(seqs) \o ConcatInOrder(Tail(seqs))

\* The items of a source whose fetch succeeded, none for one that failed.
OfSucceeded(f) == IF f.ok THEN f.entries ELSE <<>>

\* The items of a source whose fetch succeeded, and of one that failed the
\* articles built before the failure.
OfReturned(f) == IF f.ok THEN f.entries ELSE SubSeq(f.entries, 1, f.built)

SucceededInOrder == [i \in DOMAIN fetch_log |-> OfSucceeded(fetch_log[i])]

ReturnedInOrder == [i \in DOMAIN fetch_log |-> OfReturned(fetch_log[i])]

SourcesInOrder ==
    /\ Len(fetch_log) = Len(Sources)
    /\ \A i \in 1..Len(Sources) : fetch_log[i].source = Sources[i]

\* C14 as stated: whichever sources fail, the run goes on to merge, and the
\* merged sequence is the concatenation, in source order, of the items of
\* the sources that succeeded.
C14_MergeOfSucceeded ==
    /\ [][pc = "fetch" => pc' = "merge"]_vars
    /\ [][pc = "merge" =>
            /\ SourcesInOrder
            /\ all_items' = ConcatInOrder(SucceededInOrder)]_vars

\* C14 amended: whichever sources fail, the run goes on to merge and from
\* there to dedupe, or returns when nothing was collected; the merged
\* sequence is the concatenation, in source order, of every item of each
\* source that succeeded and of the items built before the failure of each
\* source that failed.
C14_MergeOfReturned ==
    /\ [][pc = "fetch" => pc' = "merge"]_vars
    /\ [](pc = "merge" =>
            /\ SourcesInOrder
            /\ rss_articles = ConcatInOrder(ReturnedInOrder))
    /\ [][pc = "merge" =>
            /\ all_items' = ConcatInOrder(ReturnedInOrder)
            /\ IF all_items' = <<>>
               THEN pc' = "returned" /\ run_result' = "no_items"
               ELSE pc' = "dedupe" /\ run_result' = "running"]_vars

\* The fetch of the second source failed at its second entry, and its first
\* article is what fetch_rss_feeds returned.
C14_Witness ==
    /\ pc = "merge"
    /\ fetch_log[1].ok
    /\ ~fetch_log[2].ok
    /\ Len(fetch_log[2].entries) = 2 /\ fetch_log[2].built = 1
    /\ rss_articles = <<fetch_log[2].entries[1]>>

\* The entries of mapping younger than 7 days at time t.
Unexpired(mapping, t) ==
    [h \in {k \in DOMAIN mapping : t - mapping[k] < 7 * 24 * 60 * 60} |->
        mapping[h]]

\* The mapping a file held: that of no file is empty.
Durable(file) == IF file.state = "mapping" THEN file.data ELSE EmptyStore

\* C15: the process that starts after a crash during _save_history loads
\* either the mapping that was on disk before the save began or the mapping
\* that was being saved, each without its expired entries.
C15_CrashSafePersist ==
    (pc = "sched" /\ persist_job.state = "started") =>
        \/ sent_news_hashes = Unexpired(Durable(persist_job.before), now)
        \/ sent_news_hashes = Unexpired(persist_job.mapping, now)

\* The file is missing, cannot be read, is not JSON, is not a JSON object, or
\* is an object with a value that is not a number.
UnexpectedShape(file) ==
    \/ file.state \in {"missing", "unreadable", "corrupt", "not_mapping"}
    \/ file.state = "mapping" /\ DOMAIN file.other # {}

\* C16: construction always gets past _load_history, and for a history
\* file of an unexpected shape the store it returns is empty.
C16_LoadNeverFatal ==
    /\ pc \in {"boot", "sched"}
    /\ (pc = "sched" /\ UnexpectedShape(history_file))
       => sent_news_hashes = EmptyStore

\* C17: when the scheduler goes on after a run that failed at the top level
\* the counter is one higher, after any other run it is 0; the process has
\* exited exactly when the counter has reached 10.
C17_CircuitBreaker ==
    /\ [][(pc = "returned" /\ pc' = "sched") =>
            IF run_result = "error"
            THEN consecutive_errors' = consecutive_errors + 1
            ELSE consecutive_errors' = 0]_vars
    /\ [](consecutive_errors >= 10 <=> pc = "exited")

\* C18: a run in which a stage raised has returned from run_workflow, marked
\* as failed; from there the scheduler can invoke the next run, and that is
\* the only thing that happens next, with the store and the file untouched.
C18_FailureContained ==
    /\ [](run_result = "error" => pc = "returned")
    /\ []((pc = "returned" /\ run_result = "error" /\ runs < MaxRuns)
            => ENABLED SchedulerTick)
    /\ [][(pc = "returned" /\ run_result = "error") =>
            /\ pc' = "sched"
            /\ runs' = runs + 1
            /\ UNCHANGED <<stores, handed, marked>>]_vars

\* The classify stage of the second run of the process raised on its third
\* attempt, and run_workflow has returned.
C18_Witness ==
    /\ pc = "returned"
    /\ run_result = "error"
    /\ retry_result = "raised"
    /\ runs = 2

HandedKeys ==
    {ContentKey(item) : item \in DOMAIN handed}
    \cup {UrlKey(item) : item \in {h \in DOMAIN handed : HasUrlKey(h)}}

C21_BoundedExternalCalls ==
    pc = "call_wait" =>
        /\ pending_call.bounded
        /\ pending_call.waited <= pending_call.limit

\* The items of the run printed to the local sink, in order.
Printed == [i \in 1..Len(selected_opportunities) |->
               Event("print", selected_opportunities[i].item, TRUE)]

\* C22: without classifier credentials the classify step returns no item
\* and does not raise, and the run goes on to its end with nothing
\* delivered, printed or marked; without delivery credentials no item is
\* posted, the delivery step prints exactly the sampled items, and the run
\* goes on through mark and persist to its normal return.
C22_NoCredentials ==
    /\ [](~gemini_api_key =>
            /\ run_result # "error"
            /\ analyzed_items = <<>>
            /\ opportunities = <<>>
            /\ selected_opportunities = <<>>
            /\ EventsOf({"deliver", "print", "mark"}) = <<>>
            /\ marked = {})
    /\ [][(~gemini_api_key /\ pc = "classify") => pc' = "select"]_vars
    /\ [](~telegram_configured =>
            /\ EventsOf({"deliver"}) = <<>>
            /\ pc \in {"mark", "save"} => run_result = "running")
    /\ [][~telegram_configured =>
            /\ pc = "deliver" => (pc' = "mark" /\ events' = events \o Printed)
            /\ pc = "mark" => pc' = "save"
            /\ pc = "save" => (pc' = "returned" /\ run_result' = "completed")]_vars

\* A run without delivery credentials has printed an item and returned
\* normally.
C22_Witness ==
    /\ ~telegram_configured
    /\ pc = "returned"
    /\ run_result = "completed"
    /\ EventsOf({"print"}) # <<>>
    /\ EventsOf({"persist"}) # <<>>

\* C23: in the log of the batch loop every classifier call that is followed
\* by another one is followed by the pacing delay first.
C23_PacingBetweenBatches ==
    \A i \in 1..(Len(retry_log) - 1) :
        retry_log[i] = Call => retry_log[i + 1] = Sleep(PacingDelay)

\* The step of run_workflow an event belongs to: deliver 7, mark 8, persist 9.
StepOf(e) ==
    IF e.op \in {"deliver", "print"} THEN 7
    ELSE IF e.op = "mark" THEN 8
    ELSE 9

\* C24: the events of a run are ordered, every delivery attempt before every
\* mark and every mark before the persist; when the persist is entered every
\* selected item has been marked; marking does not write the history file;
\* and a run that went through delivery persists exactly once.
C24_RecordHistoryOrdering ==
    /\ [](\A i, j \in 1..Len(events) :
             i < j => StepOf(events[i]) <= StepOf(events[j]))
    /\ [](pc \in {"deliver", "mark"} => EventsOf({"mark", "persist"}) = <<>>)
    /\ [](pc = "save" =>
             /\ EventItems({"mark"}) = Items(selected_opportunities)
             /\ EventsOf({"persist"}) = <<>>)
    /\ [][(pc \in {"deliver", "mark"}) => history_file' = history_file]_vars
    /\ []((pc = "returned" /\ run_result = "completed") =>
             /\ Len(EventsOf({"persist"})) = 1
             /\ EventItems({"mark"}) = Items(selected_opportunities))

\* Two items were handed to delivery, then both marked, then the history
\* saved.
C24_Witness ==
    /\ pc = "returned"
    /\ Len(events) = 5
    /\ events[2].op = "deliver"
    /\ events[3].op = "mark"
    /\ events[4].op = "mark"
    /\ events[5].op = "persist"

\* run_workflow returns early: nothing classified, sampled, delivered, marked
\* or saved, and the store as before.
EndsEarly ==
    /\ pc' = "returned"
    /\ run_result' \in {"no_items", "no_new_items"}
    /\ analyzed_items' = <<>>
    /\ opportunities' = <<>>
    /\ selected_opportunities' = <<>>
    /\ UNCHANGED <<stores, events, retry, handed, marked, consecutive_errors>>

\* C25: when nothing was fetched, or every fetched item is known to the
\* store, run_workflow returns at once without classifier call, sampling,
\* delivery, mark or save and with the store unchanged; the run is not a
\* failed one, and the scheduler goes on with its error count at 0.
C25_EarlyEndAfterDedupe ==
    /\ [][(pc = "merge" /\ rss_articles = <<>>) => EndsEarly]_vars
    /\ [][(/\ pc = "dedupe"
           /\ \A i \in 1..Len(all_items) :
                 SeenBefore(all_items[i], sent_news_hashes)) => EndsEarly]_vars
    /\ [](run_result \in {"no_items", "no_new_items"} =>
            /\ pc = "returned"
            /\ events = <<>>
            /\ retry_log = <<>>)
    /\ [][(run_result \in {"no_items", "no_new_items"}) =>
            /\ pc' = "sched"
            /\ consecutive_errors' = 0
            /\ UNCHANGED <<stores, handed, marked>>]_vars

\* The second run of a process fetched two items, both marked by the first
\* run, and has returned.
C25_Witness ==
    /\ pc = "returned"
    /\ run_result = "no_new_items"
    /\ runs = 2
    /\ Len(all_items) = 2
    /\ \A i \in 1..2 : all_items[i] \in marked

\* C26: an item whose template failed to render is sent all the same, with
\* the default message of that item.
C26_TemplateFallback ==
    \A i \in 1..Len(events) :
        (events[i].op = "deliver" /\ events[i].rendering = "failed") =>
            /\ events[i].path # "raised" => events[i].ok
            /\ events[i].message = DefaultMessage(events[i].item)

\* The response of the batch of position k parsed and holds, for some
\* position of that batch, a value that is not a verdict mapping.
InBatchWithWrongType(k) ==
    LET r == gemini_responses[1]
    IN  /\ r.kinds[BatchOf(k)] = "parsed"
        /\ \E j \in 1..Len(new_items) :
             BatchOf(j) = BatchOf(k) /\ r.v[j] = "wrong"

\* C27: analyze_with_gemini has returned; in a batch whose parsed response
\* holds a value of the wrong type, every item is in the output, the item
\* with that value is flagged False, and every other item of the batch
\* carries the verdict the response gave it.
C27_WrongTypeDegradesOneItem ==
    pc = "analyzed" =>
        \A k \in 1..Len(new_items) :
            InBatchWithWrongType(k) =>
                /\ Occurs(new_items[k], Items(analyzed_items))
                /\ \A i \in 1..Len(analyzed_items) :
                     analyzed_items[i].item = new_items[k] =>
                         analyzed_items[i].is_opportunity =
                             (gemini_responses[1].v[k] = "yes")

\* C28: analyze_with_gemini has returned; its output has the length of its
\* input and holds the input items in input order, each with a Boolean
\* is_opportunity.
C28_SequencePreserved ==
    pc = "analyzed" =>
        /\ Len(analyzed_items) = Len(new_items)
        /\ Items(analyzed_items) = new_items
        /\ \A i \in 1..Len(analyzed_items) :
             analyzed_items[i].is_opportunity \in BOOLEAN

====
